---- MODULE Spec2Model ----
(***************************************************************************)
(* A model of WebCrawler (src/web-crawler.py): the frontier, the visited   *)
(* set, the batched concurrent fetches and the fold of their outcomes into *)
(* the broken-link list.                                                   *)
(*                                                                         *)
(* A URL is a record [host, path, frag]: host "" is a URL with no netloc   *)
(* (file:///x), frag "" a URL with no fragment.  The string of a URL is    *)
(* the sequence of its tokens, and `pattern in url` is containment of a    *)
(* token in that sequence.                                                 *)
(***************************************************************************)
EXTENDS Integers, Sequences, FiniteSets, TLC

VARIABLES
    start_url,        \* self.start_url
    domain,           \* self.domain
    exclude_patterns, \* self.exclude_patterns
    max_pages,        \* self.max_pages
    concurrency,      \* self.concurrency
    visited_urls,     \* self.visited_urls
    urls_to_visit,    \* self.urls_to_visit
    broken_links,     \* self.broken_links
    batch,            \* crawl(): the local list batch
    results,          \* crawl(): the futures of executor.map, by batch position
    completed,        \* crawl(): the batch positions whose future is done, in completion order
    fold_i,           \* crawl(): position of the loop over results
    pc,               \* crawl(): where the coordinator stands
    fetch_count,      \* history: target -> number of calls of check_url on it
    reordered,        \* history: a fetch completed before one dequeued earlier
    dequeued,         \* history: the targets put in a batch, in dequeue order
    outcome,          \* history: target -> the outcome check_url returned
    batches,          \* history: number of batches started
    event,            \* lambda_handler(): the event of the invocation
    environ,          \* lambda_handler(): os.environ
    html_report,      \* lambda_handler(): what generate_html_report gave
    s3_objects,       \* number of objects save_to_s3 has put in the bucket
    response          \* lambda_handler(): the statusCode it returned

vars == <<start_url, domain, exclude_patterns, max_pages, concurrency,
          visited_urls, urls_to_visit, broken_links, batch, results, completed,
          fold_i, pc, fetch_count, reordered, dequeued, outcome, batches,
          event, environ, html_report, s3_objects, response>>

wrapper == <<event, environ, html_report, s3_objects, response>>

config == <<start_url, domain, exclude_patterns, max_pages, concurrency>>

----------------------------------------------------------------------------
(* Bounds of the model *)

MaxPagesBound == 2

MaxConcurrency == 2

(* Program constants *)

RefLimit == 5

----------------------------------------------------------------------------
(* URLs, hrefs and responses *)

\* An optional status code: None, or Some(n) for the integer n.
None == <<>>

Some(n) == <<n>>

U(h, p, f) == [host |-> h, path |-> p, frag |-> f]

SeedHost == "example.com"

Seeds == {U(SeedHost, "/", ""), U(SeedHost, "/b", ""), U(SeedHost, "/", "top")}

PatternSets == {{}, {"/b"}}

\* An href of a page: an absolute URL, a path relative to the page's host,
\* a fragment of the page itself, or a string urljoin cannot parse ("http://[").
AbsHref(h, p, f) == [kind |-> "abs", host |-> h, path |-> p, frag |-> f]

PathHref(p, f) == [kind |-> "path", host |-> "", path |-> p, frag |-> f]

FragHref(f) == [kind |-> "frag", host |-> "", path |-> "", frag |-> f]

BadHref == [kind |-> "bad", host |-> "", path |-> "", frag |-> ""]

\* The bodies a fetched page may have, each the sequence of its hrefs: no
\* link; two pages; the same two the other way round, one of them twice; an
\* anchor of the page itself, the start page, another site and a document;
\* a URL with no netloc (file:///x); an href urljoin cannot parse.
Bodies ==
    { <<>>,
      <<PathHref("/a", ""), PathHref("/b", "")>>,
      <<PathHref("/b", ""), PathHref("/a", "s"), PathHref("/b", "")>>,
      <<FragHref("s"), PathHref("/", ""), AbsHref("other.com", "/x", ""),
        PathHref("/f.PDF", "")>>,
      <<AbsHref("", "/x", "")>>,
      <<PathHref("/a", ""), BadHref>> }

Statuses == {200, 301, 404, 500}

\* What requests.get gives for one target: exc "transport" is a
\* requests.exceptions.RequestException, otherwise a response with a status,
\* a Location header or none, a Content-Type and a body of hrefs.
Responses ==
    [exc : {"none", "transport"}, status : Statuses, location : BOOLEAN,
     html : BOOLEAN, body : Bodies]

----------------------------------------------------------------------------
(* should_exclude *)

Str(url) ==
    (IF url.host = "" THEN <<>> ELSE <<url.host>>) \o <<url.path>>
        \o (IF url.frag = "" THEN <<>> ELSE <<"#", url.frag>>)

Contains(pattern, url) == \E i \in 1..Len(Str(url)) : Str(url)[i] = pattern

\* path.lower() cut to its extension
LowerExt(path) == IF path \in {"/f.PDF", "/f.pdf"} THEN ".pdf" ELSE ""

NonHtmlExts == {".jpg", ".jpeg", ".png", ".gif", ".pdf", ".zip", ".doc", ".docx"}

\* should_exclude without the test of the host.
should_exclude_AnyHost(url) ==
    \/ \E pattern \in exclude_patterns : Contains(pattern, url)
    \/ LowerExt(url.path) \in NonHtmlExts

should_exclude(url) ==
    \/ url.host # "" /\ url.host # domain
    \/ \E pattern \in exclude_patterns : Contains(pattern, url)
    \/ LowerExt(url.path) \in NonHtmlExts

----------------------------------------------------------------------------
(* check_url *)

urljoin(base, href) ==
    CASE href.kind = "abs"  -> U(href.host, href.path, href.frag)
      [] href.kind = "path" -> U(base.host, href.path, href.frag)
      [] OTHER              -> U(base.host, base.path, href.frag)

SplitFragment(url) == U(url.host, url.path, "")

Normalize(url) == U(url.host, url.path, "")

RECURSIVE ExtractLinks(_, _)
ExtractLinks(url, body) ==
    IF body = <<>> THEN <<>>
    ELSE LET absolute_url == urljoin(url, Head(body))
             normalized_url == Normalize(absolute_url)
             rest == ExtractLinks(url, Tail(body))
         IN  IF SplitFragment(absolute_url) = url THEN rest
             ELSE IF should_exclude(normalized_url) THEN rest
             ELSE <<normalized_url>> \o rest

\* What a future of the pool holds: nothing yet, the pair check_url
\* returned, or the exception it raised.
Pending == [state |-> "pending", status |-> None, links |-> <<>>]

Returned(status, links) == [state |-> "returned", status |-> status, links |-> links]

Raised == [state |-> "raised", status |-> None, links |-> <<>>]

check_url(url, resp) ==
    IF resp.exc = "transport" THEN Returned(None, <<>>)
    ELSE IF resp.status >= 300 /\ resp.status < 400 /\ resp.location
        THEN Returned(Some(resp.status), <<>>)
    ELSE IF resp.status >= 400 THEN Returned(Some(resp.status), <<>>)
    ELSE IF ~resp.html THEN Returned(Some(resp.status), <<>>)
    ELSE IF \E i \in 1..Len(resp.body) : resp.body[i].kind = "bad" THEN Raised
    ELSE Returned(Some(resp.status), ExtractLinks(url, resp.body))

----------------------------------------------------------------------------
(* __init__ *)

\* No field of the event, no variable of the environment.
NoEvent ==
    [start_url |-> None, exclude_patterns |-> None, max_pages |-> None,
     s3_bucket |-> None]

NoEnviron ==
    [START_URL |-> None, EXCLUDE_PATTERNS |-> None, MAX_PAGES |-> None,
     S3_BUCKET |-> None]

NoReport == [state |-> "pending"]

\* The crawler is run on its own, as run_local.py runs it: lambda_handler
\* is not called.
Standalone ==
    /\ event = NoEvent
    /\ environ = NoEnviron
    /\ html_report = NoReport
    /\ s3_objects = 0
    /\ response = None

Init ==
    /\ start_url \in Seeds
    /\ domain = start_url.host
    /\ exclude_patterns \in PatternSets
    /\ max_pages \in 1..MaxPagesBound
    /\ concurrency \in 1..MaxConcurrency
    /\ visited_urls = {}
    /\ urls_to_visit = <<start_url>>
    /\ broken_links = <<>>
    /\ batch = <<>>
    /\ results = <<>>
    /\ completed = <<>>
    /\ fold_i = 0
    /\ pc = "loop"
    /\ fetch_count = <<>>
    /\ reordered = FALSE
    /\ dequeued = <<>>
    /\ outcome = <<>>
    /\ batches = 0
    /\ Standalone

----------------------------------------------------------------------------
(* crawl *)

Range(s) == {s[i] : i \in 1..Len(s)}

\* TakeBatch forgetting to mark the dequeued target visited.
RECURSIVE TakeBatch_NoMark(_, _, _)
TakeBatch_NoMark(b, frontier, visited) ==
    IF frontier # <<>> /\ Len(b) < concurrency
    THEN LET url == Head(frontier)
         IN  IF url \notin visited
             THEN TakeBatch_NoMark(Append(b, url), Tail(frontier), visited)
             ELSE TakeBatch_NoMark(b, Tail(frontier), visited)
    ELSE <<b, frontier, visited>>

\* The inner while loop: pops from the front while the batch is not full,
\* keeping the targets not yet visited.  <<batch, frontier, visited>>.
RECURSIVE TakeBatch(_, _, _)
TakeBatch(b, frontier, visited) ==
    IF frontier # <<>> /\ Len(b) < concurrency
    THEN LET url == Head(frontier)
         IN  IF url \notin visited
             THEN TakeBatch(Append(b, url), Tail(frontier), visited \cup {url})
             ELSE TakeBatch(b, Tail(frontier), visited)
    ELSE <<b, frontier, visited>>

\* The loop test admitting a batch when the budget is just reached.
LoopCondition_AtBudget ==
    urls_to_visit # <<>> /\ Cardinality(visited_urls) <= max_pages

\* The loop test without the page budget.
LoopCondition_NoBudget == urls_to_visit # <<>>

LoopCondition == urls_to_visit # <<>> /\ Cardinality(visited_urls) < max_pages

StartBatch ==
    /\ pc = "loop"
    /\ LoopCondition
    /\ LET t == TakeBatch(<<>>, urls_to_visit, visited_urls)
       IN  /\ urls_to_visit' = t[2]
           /\ visited_urls' = t[3]
           /\ batch' = t[1]
           /\ dequeued' = dequeued \o t[1]
           /\ IF t[1] = <<>>
              THEN /\ pc' = "done"
                   /\ UNCHANGED <<results, batches>>
              ELSE /\ pc' = "fetching"
                   /\ results' = [i \in 1..Len(t[1]) |-> Pending]
                   /\ batches' = batches + 1
    /\ completed' = <<>>
    /\ UNCHANGED <<wrapper, config, broken_links, fold_i, fetch_count, reordered, outcome>>

ExitLoop ==
    /\ pc = "loop"
    /\ ~LoopCondition
    /\ pc' = "done"
    /\ UNCHANGED <<wrapper, config, visited_urls, urls_to_visit, broken_links, batch,
                   results, completed, fold_i, fetch_count, reordered, dequeued,
                   outcome, batches>>

\* One worker of the pool runs check_url on its target, the site answering
\* with one of the responses S.
FetchFrom(i, S) ==
    /\ pc = "fetching"
    /\ results[i] = Pending
    /\ \E resp \in S :
          LET r == check_url(batch[i], resp)
          IN  /\ results' = [results EXCEPT ![i] = r]
              /\ outcome' = outcome @@ (batch[i] :> r)
    /\ completed' = Append(completed, i)
    /\ fetch_count' = IF batch[i] \in DOMAIN fetch_count
                      THEN [fetch_count EXCEPT ![batch[i]] = @ + 1]
                      ELSE fetch_count @@ (batch[i] :> 1)
    /\ reordered' = (reordered \/ \E j \in 1..(i - 1) : results[j] = Pending)
    /\ UNCHANGED <<wrapper, config, visited_urls, urls_to_visit, broken_links, batch,
                   fold_i, pc, dequeued, batches>>

Fetch(i) == FetchFrom(i, Responses)

\* list(executor.map(...)) returning as soon as the first future is done.
Join_FirstDone ==
    /\ pc = "fetching"
    /\ results[1].state = "returned"
    /\ pc' = "folding"
    /\ fold_i' = 1
    /\ UNCHANGED <<wrapper, config, visited_urls, urls_to_visit, broken_links, batch,
                   results, completed, fetch_count, reordered, dequeued, outcome,
                   batches>>

\* list(executor.map(...)) returns: every future is done and none raised.
Join ==
    /\ pc = "fetching"
    /\ \A i \in 1..Len(batch) : results[i].state = "returned"
    /\ pc' = "folding"
    /\ fold_i' = 1
    /\ UNCHANGED <<wrapper, config, visited_urls, urls_to_visit, broken_links, batch,
                   results, completed, fetch_count, reordered, dequeued, outcome,
                   batches>>

\* list(executor.map(...)) raises the exception of the first future, in
\* batch order, that raised; the futures not yet started are cancelled.
Abort ==
    /\ pc = "fetching"
    /\ \E i \in 1..Len(batch) :
          /\ results[i].state = "raised"
          /\ \A j \in 1..(i - 1) : results[j].state # "pending"
    /\ pc' = "crashed"
    /\ UNCHANGED <<wrapper, config, visited_urls, urls_to_visit, broken_links, batch,
                   results, completed, fold_i, fetch_count, reordered, dequeued,
                   outcome, batches>>

\* Enqueue without the test that the link is not queued already.
RECURSIVE Enqueue_NoFrontierCheck(_, _, _)
Enqueue_NoFrontierCheck(frontier, visited, links) ==
    IF links = <<>> THEN frontier
    ELSE LET link == Head(links)
         IN  IF link \notin visited
             THEN Enqueue_NoFrontierCheck(Append(frontier, link), visited, Tail(links))
             ELSE Enqueue_NoFrontierCheck(frontier, visited, Tail(links))

\* Enqueue without the test that the link is not visited already.
RECURSIVE Enqueue_NoVisitedCheck(_, _, _)
Enqueue_NoVisitedCheck(frontier, visited, links) ==
    IF links = <<>> THEN frontier
    ELSE LET link == Head(links)
         IN  IF link \notin Range(frontier)
             THEN Enqueue_NoVisitedCheck(Append(frontier, link), visited, Tail(links))
             ELSE Enqueue_NoVisitedCheck(frontier, visited, Tail(links))

RECURSIVE Enqueue(_, _, _)
Enqueue(frontier, visited, links) ==
    IF links = <<>> THEN frontier
    ELSE LET link == Head(links)
         IN  IF link \notin visited /\ link \notin Range(frontier)
             THEN Enqueue(Append(frontier, link), visited, Tail(links))
             ELSE Enqueue(frontier, visited, Tail(links))

\* The failure test counting a redirect as a failure.
IsFailure_FromRedirect(status) == status = None \/ status[1] >= 300

IsFailure(status) == status = None \/ status[1] >= 400

\* The other visited pages, all of them.
ReferringChoices_NoLimit(url) == {visited_urls \ {url}}

\* referring_pages[:5]: the first five of the other visited pages, in the
\* iteration order of a set, which is any order.
ReferringChoices(url) ==
    LET others == visited_urls \ {url}
        n == IF Cardinality(others) < RefLimit THEN Cardinality(others) ELSE RefLimit
    IN  {S \in SUBSET others : Cardinality(S) = n}

\* The results taken in the order in which the futures completed.
ResultPosition_Completion(k) == completed[k]

\* executor.map yields the results in the order of the batch, whatever the
\* order in which the futures completed.
ResultPosition(k) == k

\* One iteration of the loop over results.
FoldOne ==
    /\ pc = "folding"
    /\ fold_i <= Len(batch)
    /\ LET url == batch[ResultPosition(fold_i)]
           r == results[ResultPosition(fold_i)]
       IN  /\ IF IsFailure(r.status)
              THEN \E refs \in ReferringChoices(url) :
                      broken_links' = Append(broken_links,
                          [url |-> url, status_code |-> r.status, referred_from |-> refs])
              ELSE UNCHANGED broken_links
           /\ urls_to_visit' = Enqueue(urls_to_visit, visited_urls, r.links)
    /\ fold_i' = fold_i + 1
    /\ pc' = IF fold_i = Len(batch) THEN "loop" ELSE "folding"
    /\ completed' = IF fold_i = Len(batch) THEN <<>> ELSE completed
    /\ UNCHANGED <<wrapper, config, visited_urls, batch, results, fetch_count, reordered,
                   dequeued, outcome, batches>>

Next ==
    \/ StartBatch
    \/ ExitLoop
    \/ \E i \in 1..Len(batch) : Fetch(i)
    \/ Join
    \/ Abort
    \/ FoldOne

Spec == Init /\ [][Next]_vars

\* The coordinator keeps running and every fetch returns.
FairSpec == Spec /\ WF_vars(Next)

----------------------------------------------------------------------------
(* crawl() on a site whose start page links to six pages, with the default *)
(* page budget: more pages are visited than a record lists as referrers.   *)

WideBody ==
    <<PathHref("/p1", ""), PathHref("/p2", ""), PathHref("/p3", ""),
      PathHref("/p4", ""), PathHref("/p5", ""), PathHref("/p6", "")>>

WideResponses ==
    [exc : {"none", "transport"}, status : {200, 404}, location : {FALSE},
     html : {TRUE}, body : {WideBody, <<BadHref>>}]

WideInit ==
    /\ start_url = U(SeedHost, "/", "")
    /\ domain = start_url.host
    /\ exclude_patterns = {}
    /\ max_pages = 100
    /\ concurrency \in 1..MaxConcurrency
    /\ visited_urls = {}
    /\ urls_to_visit = <<start_url>>
    /\ broken_links = <<>>
    /\ batch = <<>>
    /\ results = <<>>
    /\ completed = <<>>
    /\ fold_i = 0
    /\ pc = "loop"
    /\ fetch_count = <<>>
    /\ reordered = FALSE
    /\ dequeued = <<>>
    /\ outcome = <<>>
    /\ batches = 0
    /\ Standalone

WideNext ==
    \/ StartBatch
    \/ ExitLoop
    \/ \E i \in 1..Len(batch) : FetchFrom(i, WideResponses)
    \/ Join
    \/ Abort
    \/ FoldOne

WideSpec == WideInit /\ [][WideNext]_vars

----------------------------------------------------------------------------
(* crawl() from https://example.com/ with max_pages = 10 and concurrency = *)
(* 2, on a site whose pages are empty, link to /about, /missing and        *)
(* https://other.com/x, or hold an href that cannot be parsed.             *)

ScenarioBodies ==
    { <<>>,
      <<PathHref("/about", ""), PathHref("/missing", ""),
        AbsHref("other.com", "/x", "")>>,
      <<BadHref>> }

ScenarioResponses ==
    [exc : {"none", "transport"}, status : Statuses, location : BOOLEAN,
     html : BOOLEAN, body : ScenarioBodies]

ScenarioInit ==
    /\ start_url = U(SeedHost, "/", "")
    /\ domain = start_url.host
    /\ exclude_patterns = {}
    /\ max_pages = 10
    /\ concurrency = 2
    /\ visited_urls = {}
    /\ urls_to_visit = <<start_url>>
    /\ broken_links = <<>>
    /\ batch = <<>>
    /\ results = <<>>
    /\ completed = <<>>
    /\ fold_i = 0
    /\ pc = "loop"
    /\ fetch_count = <<>>
    /\ reordered = FALSE
    /\ dequeued = <<>>
    /\ outcome = <<>>
    /\ batches = 0
    /\ Standalone

ScenarioNext ==
    \/ StartBatch
    \/ ExitLoop
    \/ \E i \in 1..Len(batch) : FetchFrom(i, ScenarioResponses)
    \/ Join
    \/ Abort
    \/ FoldOne

ScenarioSpec == ScenarioInit /\ [][ScenarioNext]_vars

----------------------------------------------------------------------------
(* generate_html_report and lambda_handler.                                *)

ConnectionError == [text |-> "Connection Error"]

\* One <tr> of the report.  `link['status_code'] >= 400` is evaluated first
\* and raises TypeError when the status is None.
RenderRow(link) ==
    IF link.status_code = None
    THEN [state |-> "raised"]
    ELSE [state |-> "returned",
          url |-> link.url,
          status_class |-> IF link.status_code[1] >= 400
                           THEN "status-error" ELSE "status-warning",
          status |-> IF link.status_code # None /\ link.status_code[1] # 0
                     THEN [code |-> link.status_code[1]]
                     ELSE ConnectionError,
          referring |-> link.referred_from]

generate_html_report(links) ==
    IF \E i \in 1..Len(links) : RenderRow(links[i]).state = "raised"
    THEN [state |-> "raised"]
    ELSE [state |-> "returned", rows |-> [i \in 1..Len(links) |-> RenderRow(links[i])]]

\* a or b
Or(a, b) == IF a # None THEN a ELSE b

\* os.environ.get(name, default)
Get(value, default) == IF value # None THEN value ELSE Some(default)

\* int(text): the number, or None where int raises ValueError.
int(text) ==
    CASE text = "1" -> Some(1)
      [] text = "2" -> Some(2)
      [] text = "100" -> Some(100)
      [] OTHER -> None

\* json.loads(text): the list, or None where it raises JSONDecodeError.
json_loads(text) ==
    CASE text = "[]" -> Some({})
      [] text = "[\"/about\"]" -> Some({"/about"})
      [] OTHER -> None

Events ==
    [start_url : {None, Some(U(SeedHost, "/", ""))},
     exclude_patterns : {None},
     max_pages : {None, Some("1")},
     s3_bucket : {None, Some("reports")}]

Environs ==
    [START_URL : {None, Some(U(SeedHost, "/", ""))},
     EXCLUDE_PATTERNS : {None, Some("[\"/about\"]"), Some("{")},
     MAX_PAGES : {None, Some("abc")},
     S3_BUCKET : {None, Some("reports")}]

HandlerResponses ==
    [exc : {"none", "transport"}, status : {200, 404}, location : {FALSE},
     html : {TRUE}, body : ScenarioBodies]

HandlerInit ==
    /\ event \in Events
    /\ environ \in Environs
    /\ html_report = NoReport
    /\ s3_objects = 0
    /\ response = None
    /\ pc = "handler"
    /\ start_url = U("", "", "")
    /\ domain = ""
    /\ exclude_patterns = {}
    /\ max_pages = 0
    /\ concurrency = 0
    /\ visited_urls = {}
    /\ urls_to_visit = <<>>
    /\ broken_links = <<>>
    /\ batch = <<>>
    /\ results = <<>>
    /\ completed = <<>>
    /\ fold_i = 0
    /\ fetch_count = <<>>
    /\ reordered = FALSE
    /\ dequeued = <<>>
    /\ outcome = <<>>
    /\ batches = 0

\* lambda_handler up to the call of crawl(): the configuration is read and
\* converted, then the required values are tested, then the crawler is
\* constructed with the default concurrency.
HandlerConfigure ==
    /\ pc = "handler"
    /\ LET url == Or(event.start_url, environ.START_URL)
           patterns == IF event.exclude_patterns # None
                       THEN event.exclude_patterns
                       ELSE json_loads(Get(environ.EXCLUDE_PATTERNS, "[]")[1])
           pages == int(Or(event.max_pages, Get(environ.MAX_PAGES, "100"))[1])
           s3_bucket == Or(event.s3_bucket, environ.S3_BUCKET)
       IN  IF patterns = None \/ pages = None
           THEN /\ response' = Some(500)
                /\ pc' = "returned"
                /\ UNCHANGED <<config, urls_to_visit>>
           ELSE IF url = None \/ s3_bucket = None
           THEN /\ response' = Some(400)
                /\ pc' = "returned"
                /\ UNCHANGED <<config, urls_to_visit>>
           ELSE /\ start_url' = url[1]
                /\ domain' = url[1].host
                /\ exclude_patterns' = patterns[1]
                /\ max_pages' = pages[1]
                /\ concurrency' = 10
                /\ urls_to_visit' = <<url[1]>>
                /\ pc' = "loop"
                /\ UNCHANGED response
    /\ UNCHANGED <<event, environ, html_report, s3_objects, visited_urls,
                   broken_links, batch, results, completed, fold_i,
                   fetch_count, reordered, dequeued, outcome, batches>>

\* crawl() raised: except Exception.
HandlerCrawlRaised ==
    /\ pc = "crashed"
    /\ response' = Some(500)
    /\ pc' = "returned"
    /\ UNCHANGED <<config, visited_urls, urls_to_visit, broken_links, batch,
                   results, completed, fold_i, fetch_count, reordered,
                   dequeued, outcome, batches, event, environ, html_report,
                   s3_objects>>

\* crawl() returned: the report is generated.
HandlerReport ==
    /\ pc = "done"
    /\ html_report' = generate_html_report(broken_links)
    /\ IF html_report'.state = "raised"
       THEN response' = Some(500) /\ pc' = "returned"
       ELSE pc' = "saving" /\ UNCHANGED response
    /\ UNCHANGED <<config, visited_urls, urls_to_visit, broken_links, batch,
                   results, completed, fold_i, fetch_count, reordered,
                   dequeued, outcome, batches, event, environ, s3_objects>>

\* The two calls of save_to_s3: put_object stores the object or raises.
HandlerSave ==
    /\ pc = "saving"
    /\ \E stored \in 0..2 :
          /\ s3_objects' = stored
          /\ response' = IF stored = 2 THEN Some(200) ELSE Some(500)
    /\ pc' = "returned"
    /\ UNCHANGED <<config, visited_urls, urls_to_visit, broken_links, batch,
                   results, completed, fold_i, fetch_count, reordered,
                   dequeued, outcome, batches, event, environ, html_report>>

HandlerNext ==
    \/ HandlerConfigure
    \/ StartBatch
    \/ ExitLoop
    \/ \E i \in 1..Len(batch) : FetchFrom(i, HandlerResponses)
    \/ Join
    \/ Abort
    \/ FoldOne
    \/ HandlerCrawlRaised
    \/ HandlerReport
    \/ HandlerSave

HandlerSpec == HandlerInit /\ [][HandlerNext]_vars

----------------------------------------------------------------------------
(* Claims *)

Fetched == DOMAIN fetch_count

HasDuplicates(s) == \E i, j \in 1..Len(s) : i # j /\ s[i] = s[j]

\* C1: each target is fetched at most once: check_url has run at most once
\* on any URL, only on visited URLs, a batch holds no target twice and no
\* target that was fetched before, and when crawl() returns the number of
\* fetches made equals the size of the visited set.
C1_FetchedAtMostOnce ==
    /\ \A u \in Fetched : fetch_count[u] = 1 /\ u \in visited_urls
    /\ ~HasDuplicates(dequeued)
    /\ pc = "fetching" =>
          \A i \in 1..Len(batch) : results[i] = Pending => batch[i] \notin Fetched
    /\ pc = "done" => Fetched = visited_urls

\* C1 witness: the crawl returned after several batches, and a page that was
\* fetched links to a target that had been dequeued before it.
C1_Witness ==
    /\ pc = "done"
    /\ batches >= 2
    /\ Cardinality(visited_urls) >= 3
    /\ \E i, j \in 1..Len(dequeued) :
          /\ i < j
          /\ dequeued[j] \in DOMAIN outcome
          /\ dequeued[i] \in Range(outcome[dequeued[j]].links)

\* C2: the visited set never holds more than max_pages + concurrency - 1
\* targets.
C2_BudgetRespected ==
    Cardinality(visited_urls) <= max_pages + concurrency - 1

\* C2 witness: the last batch overshot the budget by concurrency - 1.
C2_Witness ==
    /\ concurrency >= 2
    /\ Cardinality(visited_urls) > max_pages
    /\ Cardinality(visited_urls) = max_pages + concurrency - 1


\* C3: no target whose URL contains a configured exclude pattern is ever
\* fetched or put in a batch, the start URL included.
C3_ExclusionRespected ==
    \A u \in Fetched \cup Range(dequeued) :
        ~\E pattern \in exclude_patterns : Contains(pattern, u)

\* C4: every visited target, every queued target and the url of every
\* broken-link record has the host of the start URL.
C4_DomainConfined ==
    /\ \A u \in visited_urls : u.host = start_url.host
    /\ \A i \in 1..Len(urls_to_visit) : urls_to_visit[i].host = start_url.host
    /\ \A i \in 1..Len(broken_links) : broken_links[i].url.host = start_url.host

RecordsOf(u) == {i \in 1..Len(broken_links) : broken_links[i].url = u}

\* The outcomes the report must hold: no status, or a status of 400 or more.
MustBeReported(o) == o.status = None \/ o.status[1] >= 400

\* C5: when crawl() returns, broken_links holds exactly one record, with the
\* status of the outcome, for every fetched target whose outcome was a status
\* >= 400 or a transport failure, and none for any other fetched target.
C5_FailureClassification ==
    pc = "done" =>
        /\ \A u \in Fetched :
              IF MustBeReported(outcome[u])
              THEN /\ Cardinality(RecordsOf(u)) = 1
                   /\ \A i \in RecordsOf(u) :
                         broken_links[i].status_code = outcome[u].status
              ELSE RecordsOf(u) = {}
        /\ \A i \in 1..Len(broken_links) : broken_links[i].url \in Fetched

\* C5 witness: the crawl returned having fetched a page, a redirect and a
\* target whose fetch failed in transport, the last one alone being reported.
C5_Witness ==
    /\ pc = "done"
    /\ Len(broken_links) = 1
    /\ broken_links[1].status_code = None
    /\ \E u, v \in Fetched :
          /\ outcome[u].status = Some(301)
          /\ outcome[v].status = Some(200)

IsRedirect(o) == o.status # None /\ o.status[1] >= 300 /\ o.status[1] < 400

\* C6: the outcome of every fetch whose status is in 300..399 carries no
\* link, and no broken-link record is made for its target.
C6_RedirectIsDeadEnd ==
    \A u \in Fetched :
        (outcome[u].state = "returned" /\ IsRedirect(outcome[u])) =>
            outcome[u].links = <<>> /\ RecordsOf(u) = {}

\* C7: every referrer of a broken-link record is a visited page whose
\* outcome holds the record's url among its links.
C7_ReferrersReference ==
    \A i \in 1..Len(broken_links) :
        \A page \in broken_links[i].referred_from :
            /\ page \in visited_urls
            /\ page \in Fetched
            /\ broken_links[i].url \in Range(outcome[page].links)

\* C8: no exception leaves check_url: every fetch ends in an outcome, and
\* crawl() never ends by raising.
C8_ExceptionsContained ==
    /\ \A u \in Fetched : outcome[u].state = "returned"
    /\ pc # "crashed"

\* C9: crawl() ends, having started at most max_pages batches, and when it
\* returns the frontier is empty or the page budget is reached.
C9_Terminates ==
    /\ <>(pc \in {"done", "crashed"})
    /\ [](batches <= max_pages)
    /\ [](pc = "done" =>
            (urls_to_visit = <<>> \/ Cardinality(visited_urls) >= max_pages))

\* C9 witness: the crawl returned on the page budget after max_pages
\* batches, with targets left in the frontier, on a site whose pages link
\* back to pages already visited.
C9_Witness ==
    /\ pc = "done"
    /\ max_pages >= 2
    /\ batches = max_pages
    /\ urls_to_visit # <<>>
    /\ \E u \in Fetched : \E v \in visited_urls : v \in Range(outcome[u].links)

RECURSIVE FailuresIn(_)
FailuresIn(targets) ==
    IF targets = <<>> THEN <<>>
    ELSE (IF MustBeReported(outcome[Head(targets)])
          THEN <<<<Head(targets), outcome[Head(targets)].status>>>>
          ELSE <<>>) \o FailuresIn(Tail(targets))

RECURSIVE LinksOf(_)
LinksOf(targets) ==
    IF targets = <<>> THEN <<>>
    ELSE outcome[Head(targets)].links \o LinksOf(Tail(targets))

RECURSIVE FirstOccurrences(_, _)
FirstOccurrences(seen, s) ==
    IF s = <<>> THEN <<>>
    ELSE IF Head(s) \in seen THEN FirstOccurrences(seen, Tail(s))
    ELSE <<Head(s)>> \o FirstOccurrences(seen \cup {Head(s)}, Tail(s))

\* C10: between batches the state is a function of the dequeue order and of
\* the outcomes alone, whatever the order in which the fetches completed:
\* the visited set is the set of dequeued targets, the records are the
\* failed targets in dequeue order with their status, and the targets ever
\* queued (dequeued, then still queued) are the start URL and the links of
\* the dequeued pages in dequeue order, each at its first occurrence.
C10_OrderIndependent ==
    pc \in {"loop", "done"} =>
        /\ visited_urls = Range(dequeued)
        /\ [i \in 1..Len(broken_links) |->
               <<broken_links[i].url, broken_links[i].status_code>>]
             = FailuresIn(dequeued)
        /\ dequeued \o urls_to_visit
             = FirstOccurrences({}, <<start_url>> \o LinksOf(dequeued))

\* C10 witness: in the second batch, the first with two targets, the second
\* target's fetch completed before the first's, both failed and both are
\* reported.
C10_Witness ==
    /\ pc = "loop"
    /\ batches = 2
    /\ reordered
    /\ Len(batch) = 2
    /\ MustBeReported(outcome[batch[1]])
    /\ MustBeReported(outcome[batch[2]])
    /\ Len(broken_links) >= 2

C14_SelfAnchorDropped ==
    \A page \in Fetched : ExtractLinks(page, <<FragHref("s")>>) = <<>>

\* C17: the frontier never holds a target twice, and no target is queued
\* twice over the crawl: the targets dequeued so far followed by those still
\* queued hold no target twice.
C17_FrontierNoDuplicates ==
    /\ ~HasDuplicates(urls_to_visit)
    /\ ~HasDuplicates(dequeued \o urls_to_visit)

\* C17 witness: two fetched pages both link to a target that is queued, one
\* of them twice.
C17_Witness ==
    \E u, v \in Fetched :
        /\ u # v
        /\ HasDuplicates(outcome[u].links)
        /\ \E link \in Range(urls_to_visit) :
              link \in Range(outcome[u].links) /\ link \in Range(outcome[v].links)

\* C18: every target in the frontier or the visited set is in normalized
\* form, and no two visited targets differ only by their fragment.
C18_TargetsNormalized ==
    /\ \A u \in visited_urls \cup Range(urls_to_visit) : u = Normalize(u)
    /\ \A u, v \in visited_urls : Normalize(u) = Normalize(v) => u = v

FirstN(s, n) == SubSeq(s, 1, IF n < Len(s) THEN n ELSE Len(s))

DropN(s, n) == SubSeq(s, (IF n < Len(s) THEN n ELSE Len(s)) + 1, Len(s))

\* C20: the frontier and the visited set are always disjoint, and every pass
\* of the loop that finds its test true starts a batch made of the first
\* min(concurrency, |frontier|) queued targets, in order, never leaving by
\* the empty-batch exit.
C20_FrontierDisjoint ==
    /\ [](Range(urls_to_visit) \cap visited_urls = {})
    /\ [][(pc = "loop" /\ LoopCondition) =>
             /\ pc' = "fetching"
             /\ batch' # <<>>
             /\ batch' = FirstN(urls_to_visit, concurrency)
             /\ urls_to_visit' = DropN(urls_to_visit, concurrency)]_vars

\* C20 witness: a batch was filled from the front of a frontier that held
\* more targets than the batch takes, after a page linked to a visited page.
C20_Witness ==
    /\ pc = "fetching"
    /\ batches >= 2
    /\ Len(batch) = concurrency
    /\ urls_to_visit # <<>>
    /\ \E u \in Fetched : \E v \in visited_urls : v \in Range(outcome[u].links)

\* C16: the frontier, the visited set and the broken links change in no
\* step taken while a batch is being fetched (a worker's fetch, the join, an
\* exception), the fold runs only when every fetch of the batch has
\* returned, and a batch starts only from the loop test, after the last
\* outcome of the batch before it was folded.
C16_CoordinatorOnly ==
    /\ [](pc = "folding" => \A i \in 1..Len(batch) : results[i].state = "returned")
    /\ [][/\ pc = "fetching" =>
                UNCHANGED <<urls_to_visit, visited_urls, broken_links>>
          /\ batches' # batches =>
                pc = "loop" /\ (batches = 0 \/ fold_i = Len(batch) + 1)]_vars

\* C16 witness: in a batch of two, after the first batch was folded, one
\* fetch has returned and the other is in flight.
C16_Witness ==
    /\ pc = "fetching"
    /\ batches = 2
    /\ Len(batch) = 2
    /\ Len(completed) = 1
    /\ \E i \in 1..2 : results[i] = Pending
    /\ Len(dequeued) = 3

\* C19: every record lists at most 5 referrers, never its own url, and only
\* targets that were visited when it was made; a record, once appended, is
\* neither changed nor removed.
C19_ReferrersSampled ==
    /\ [](\A i \in 1..Len(broken_links) :
            /\ Cardinality(broken_links[i].referred_from) <= 5
            /\ broken_links[i].url \notin broken_links[i].referred_from
            /\ broken_links[i].referred_from \subseteq visited_urls)
    /\ [][/\ Len(broken_links') >= Len(broken_links)
          /\ SubSeq(broken_links', 1, Len(broken_links)) = broken_links
          /\ Len(broken_links') > Len(broken_links) =>
                broken_links'[Len(broken_links')].referred_from \subseteq visited_urls]_vars

\* C19 witness: a record made when seven targets were visited lists five of
\* the six others, one of them a target of its own batch.
C19_Witness ==
    /\ concurrency = 2
    /\ Cardinality(visited_urls) = 7
    /\ \E i \in 1..Len(broken_links) :
          /\ Cardinality(broken_links[i].referred_from) = 5
          /\ broken_links[i].url \in Range(batch)
          /\ \E page \in broken_links[i].referred_from : page \in Range(batch)

ScenarioSeed == U(SeedHost, "/", "")

ScenarioAbout == U(SeedHost, "/about", "")

ScenarioMissing == U(SeedHost, "/missing", "")

ScenarioOther == U("other.com", "/x", "")

\* The site of the scenario: the start page answers 200 with the three
\* links, /about answers 200 with no link, /missing answers 404.
ScenarioSite ==
    /\ {ScenarioSeed, ScenarioAbout, ScenarioMissing} \subseteq Fetched
    /\ outcome[ScenarioSeed] = Returned(Some(200), <<ScenarioAbout, ScenarioMissing>>)
    /\ outcome[ScenarioAbout] = Returned(Some(200), <<>>)
    /\ outcome[ScenarioMissing] = Returned(Some(404), <<>>)

\* C12: https://other.com/x is never queued or visited, and when crawl()
\* returns on the site of the scenario the visited set is the start page,
\* /about and /missing, and broken_links is one record, for /missing, with
\* status 404 and the start page among its referrers.
C12_Scenario ==
    /\ ScenarioOther \notin visited_urls \cup Range(urls_to_visit)
    /\ (pc = "done" /\ ScenarioSite) =>
          /\ visited_urls = {ScenarioSeed, ScenarioAbout, ScenarioMissing}
          /\ Len(broken_links) = 1
          /\ broken_links[1].url = ScenarioMissing
          /\ broken_links[1].status_code = Some(404)
          /\ ScenarioSeed \in broken_links[1].referred_from

\* C12 witness: crawl() returned on the site of the scenario.
C12_Witness == pc = "done" /\ ScenarioSite

\* C11: once the report is generated, generate_html_report returned a
\* document, and every record whose status_code is None has the row status
\* "Connection Error".
C11_NullStatusRendered ==
    html_report # NoReport =>
        /\ html_report.state = "returned"
        /\ \A i \in 1..Len(broken_links) :
              broken_links[i].status_code = None =>
                  html_report.rows[i].status = ConnectionError

StartUrlMissing == event.start_url = None /\ environ.START_URL = None

BucketMissing == event.s3_bucket = None /\ environ.S3_BUCKET = None

\* C15: when start_url or s3_bucket is missing from both the event and the
\* environment, lambda_handler returns statusCode 400, the crawler is never
\* constructed or run and nothing is written to the bucket.
C15_MissingConfigRejected ==
    (StartUrlMissing \/ BucketMissing) =>
        /\ urls_to_visit = <<>> /\ batches = 0 /\ Fetched = {}
        /\ s3_objects = 0
        /\ pc = "returned" => response = Some(400)

====
